---- MODULE Spec2Model ----
(***************************************************************************)
(* Contact-form backend: the create_contact view (contact/views.py), the   *)
(* Contact table of migration 0001_initial, and the ContactSerializer the  *)
(* view validates with.  Several requests are handled concurrently; the    *)
(* only state they share is the Contact table and the server log.          *)
(***************************************************************************)
EXTENDS Integers, Sequences, FiniteSets, TLC

VARIABLES
    reqs,     \* per request: position in create_contact, body, responses
    store,    \* the Contact table: rows in insertion order
    nextId,   \* the table's BigAutoField sequence
    now,      \* the server clock read by auto_now_add
    log       \* lines written by logger.error

vars == <<reqs, store, nextId, now, log>>

---------------------------------------------------------------------------
(* Bounds of the model *)

MaxReqs == 2          \* requests handled (concurrently)
MaxTime == 2          \* clock ticks
InquiryLong == 300    \* a long inquiry text, longer than every max_length

Reqs == 1..MaxReqs

---------------------------------------------------------------------------
(* JSON values of a request body.  A string is "a" repeated len times,     *)
(* optionally followed by "@" and "d" repeated dom times.                  *)

Str(n) == [kind |-> "str", len |-> n, at |-> FALSE, dom |-> 0]
Addr(n, d) == [kind |-> "str", len |-> n, at |-> TRUE, dom |-> d]
Bare(n, d) == [kind |-> "str", len |-> n, at |-> FALSE, dom |-> d]
List == [kind |-> "list", len |-> 0, at |-> FALSE, dom |-> 0]
Num(n) == [kind |-> "num", len |-> n, at |-> FALSE, dom |-> 0]

Length(v) == v.len + (IF v.at THEN 1 ELSE 0) + v.dom

EmptyText == Str(0)

---------------------------------------------------------------------------
(* The Contact table: migrations/0001_initial.py *)

Fields == {"name", "email", "phone", "subject", "inquiry", "contact_method"}

\* CharField / EmailField max_length; TextField has none (0 = unlimited)
MaxLengthOffByOne(f) ==
    CASE f = "name" -> 101
      [] f = "email" -> 254
      [] f = "phone" -> 20
      [] f = "subject" -> 100
      [] f = "contact_method" -> 20
      [] OTHER -> 0

MaxLength(f) ==
    CASE f = "name" -> 100
      [] f = "email" -> 254
      [] f = "phone" -> 20
      [] f = "subject" -> 100
      [] f = "contact_method" -> 20
      [] OTHER -> 0

HasMaxLength(f) == f \in {"name", "email", "phone", "subject", "contact_method"}

\* blank=True
BlankAllowedSubjectToo(f) == f \in {"phone", "subject", "contact_method"}

BlankAllowedNotPhone(f) == f \in {"contact_method"}

BlankAllowed(f) == f \in {"phone", "contact_method"}

\* EmailField
IsEmailField(f) == f = "email"

---------------------------------------------------------------------------
(* ContactSerializer: is_valid(), errors, validated_data *)

Required(f) == ~BlankAllowed(f)

WellFormedEmail(v) == v.at /\ v.len >= 1 /\ v.dom >= 1

\* the error list of one field, in the order the checks run
FieldErrors(data, f) ==
    IF f \notin DOMAIN data
    THEN IF Required(f) THEN <<"required">> ELSE <<>>
    ELSE LET v == data[f] IN
         IF v.kind # "str" THEN <<"invalid">>
         ELSE IF Length(v) = 0
              THEN IF BlankAllowed(f) THEN <<>> ELSE <<"blank">>
              ELSE (IF IsEmailField(f) /\ ~WellFormedEmail(v)
                    THEN <<"invalid_email">> ELSE <<>>)
                   \o (IF HasMaxLength(f) /\ Length(v) > MaxLength(f)
                       THEN <<"max_length">> ELSE <<>>)

Errors(data) ==
    LET bad == {f \in Fields : FieldErrors(data, f) # <<>>}
    IN [f \in bad |-> FieldErrors(data, f)]

IsValid(data) == DOMAIN Errors(data) = {}

\* the normalized submission: the six model fields, optional ones defaulting
\* to empty text; id and created_at of the input are not part of it
ValidatedData(data) ==
    [f \in Fields |-> IF f \in DOMAIN data THEN data[f] ELSE EmptyText]

---------------------------------------------------------------------------
(* create_contact: contact/views.py *)

HTTP_201_CREATED == 201
HTTP_400_BAD_REQUEST == 400
HTTP_500_INTERNAL_SERVER_ERROR == 500

SuccessMessage == "Contact form submitted successfully"
InvalidMessage == "Invalid data"
GenericMessage == "An error occurred while processing your request"

\* what can be raised inside the try block: reading request.data of a body
\* that does not parse, and the database write of serializer.save()
StoreErrors == {"OperationalError", "IntegrityError"}
Exceptions == StoreErrors \cup {"ParseError"}

\* except Exception
CaughtIntegrityOnly(e) == e = "IntegrityError"

Caught(e) == e \in Exceptions

\* logger.error(f"Error processing contact form: {str(e)}")
LogLine(e) == [prefix |-> "Error processing contact form: ", text |-> e]

AcceptResponse ==
    [status |-> HTTP_201_CREATED, body |-> [message |-> SuccessMessage]]

RejectResponse(errors) ==
    [status |-> HTTP_400_BAD_REQUEST,
     body |-> [message |-> InvalidMessage, errors |-> errors]]

FaultResponseLeaky(e) ==
    [status |-> HTTP_500_INTERNAL_SERVER_ERROR,
     body |-> [message |-> GenericMessage, detail |-> e]]

FaultResponse(e) ==
    [status |-> HTTP_500_INTERNAL_SERVER_ERROR,
     body |-> [message |-> GenericMessage]]

\* if serializer.is_valid():
SaveAlways(data) == TRUE

ShouldSave(data) == IsValid(data)

\* the row INSERTed by serializer.save(): the validated fields, the id drawn
\* from the table's sequence, created_at read from the clock (auto_now_add)
NewRowCallerId(data) ==
    [id |-> IF "id" \in DOMAIN data THEN data["id"].len ELSE nextId,
     created_at |-> IF "created_at" \in DOMAIN data
                    THEN data["created_at"].len ELSE now,
     fields |-> ValidatedData(data)]

NewRowEpoch(data) ==
    [id |-> nextId, created_at |-> 0, fields |-> ValidatedData(data)]

NewRow(data) ==
    [id |-> nextId, created_at |-> now, fields |-> ValidatedData(data)]

\* the table after the INSERT: one more row, the others untouched
InsertedUpsert(row) ==
    SelectSeq(store, LAMBDA old : old.fields["email"] # row.fields["email"])
        \o <<row>>

Inserted(row) == Append(store, row)

\* the sequence after an allocation
SequenceStuck(n) == n

SequenceAfter(n) == n + 1

NoData == [f \in {} |-> EmptyText]

IdleRequest ==
    [pc |-> "idle", ok |-> TRUE, data |-> NoData, resp |-> <<>>,
     outcome |-> "none", saveCalls |-> 0, escaped |-> FALSE,
     instanceId |-> 0, peers |-> {}]

\* control reaches the except clause with exception e (or e leaves the view)
Handled(q, e) ==
    IF Caught(e)
    THEN [q EXCEPT !.pc = "done", !.outcome = "Faulted",
                   !.resp = Append(@, FaultResponse(e))]
    ELSE [q EXCEPT !.pc = "raised", !.escaped = TRUE]

Logged(e) == IF Caught(e) THEN Append(log, LogLine(e)) ELSE log

---------------------------------------------------------------------------
(* Request bodies *)

ValidFull ==
    [ok |-> TRUE,
     data |-> [name |-> Str(5), email |-> Addr(5, 11), phone |-> Str(10),
               subject |-> Str(5), inquiry |-> Str(12),
               contact_method |-> Str(5)]]

ValidMinimal ==
    [ok |-> TRUE,
     data |-> [name |-> Str(3), email |-> Addr(3, 11), subject |-> Str(2),
               inquiry |-> Str(InquiryLong)]]

ValidWithAutoFields ==
    [ok |-> TRUE,
     data |-> [id |-> Num(MaxReqs + 5), created_at |-> Num(MaxTime + 5),
               name |-> Str(4), email |-> Addr(5, 11), subject |-> Str(5),
               inquiry |-> Str(1), phone |-> Str(0)]]

MissingName ==
    [ok |-> TRUE,
     data |-> [email |-> Addr(5, 11), subject |-> Str(5), inquiry |-> Str(12)]]

LongName ==
    [ok |-> TRUE,
     data |-> [name |-> Str(MaxLength("name") + 1), email |-> Addr(5, 11),
               subject |-> Str(5), inquiry |-> Str(12)]]

BadEmail ==
    [ok |-> TRUE,
     data |-> [name |-> Str(5), email |-> Bare(5, 11), subject |-> Str(5),
               inquiry |-> Str(12)]]

Unparsable == [ok |-> FALSE, data |-> NoData]

CoreBodies ==
    {ValidFull, ValidMinimal, ValidWithAutoFields, MissingName, LongName,
     BadEmail, Unparsable}

---------------------------------------------------------------------------
(* The state machine *)

Init ==
    /\ reqs = [r \in Reqs |-> IdleRequest]
    /\ store = <<>>
    /\ nextId = 1
    /\ now = 0
    /\ log = <<>>

\* a POST arrives; requests are numbered in order of arrival
Arrive(r, body) ==
    /\ reqs[r].pc = "idle"
    /\ \A q \in Reqs : q < r => reqs[q].pc # "idle"
    /\ reqs' = [reqs EXCEPT ![r] = [@ EXCEPT !.pc = "line12", !.ok = body.ok,
                                             !.data = body.data]]
    /\ UNCHANGED <<store, nextId, now, log>>

Request(r) == \E body \in CoreBodies : Arrive(r, body)

\* lines 12-13 and 19-22: build the serializer from request.data, validate,
\* answer 400 on failure
Validate(r) ==
    LET q == reqs[r] IN
    /\ q.pc = "line12"
    /\ IF ~q.ok
       THEN /\ reqs' = [reqs EXCEPT ![r] = Handled(q, "ParseError")]
            /\ log' = Logged("ParseError")
       ELSE IF ShouldSave(q.data)
       THEN /\ reqs' = [reqs EXCEPT ![r] = [q EXCEPT !.pc = "line14"]]
            /\ log' = log
       ELSE /\ reqs' = [reqs EXCEPT ![r] =
                           [q EXCEPT !.pc = "done", !.outcome = "Rejected",
                                     !.resp = Append(@, RejectResponse(Errors(q.data)))]]
            /\ log' = log
    /\ UNCHANGED <<store, nextId, now>>

\* lines 14-18: serializer.save() succeeds, answer 201
Save(r) ==
    LET q == reqs[r]
        row == NewRow(q.data)
    IN
    /\ q.pc = "line14"
    /\ store' = Inserted(row)
    /\ nextId' = SequenceAfter(nextId)
    /\ reqs' = [reqs EXCEPT ![r] =
                   [q EXCEPT !.pc = "done", !.outcome = "Accepted",
                             !.saveCalls = @ + 1, !.instanceId = row.id,
                             !.peers = {p \in Reqs \ {r} : reqs[p].pc = "line14"},
                             !.resp = Append(@, AcceptResponse)]]
    /\ UNCHANGED <<now, log>>

\* lines 14 and 23-28: serializer.save() raises e; the failed INSERT may or
\* may not have consumed a value of the sequence
SaveRaises(r) ==
    LET q == reqs[r] IN
    /\ q.pc = "line14"
    /\ \E e \in StoreErrors, burn \in BOOLEAN :
          /\ reqs' = [reqs EXCEPT ![r] =
                         Handled([q EXCEPT !.saveCalls = @ + 1], e)]
          /\ log' = Logged(e)
          /\ nextId' = IF burn THEN SequenceAfter(nextId) ELSE nextId
    /\ UNCHANGED <<store, now>>

Tick ==
    /\ now < MaxTime
    /\ now' = now + 1
    /\ UNCHANGED <<reqs, store, nextId, log>>

Next ==
    \/ \E r \in Reqs : Request(r)
    \/ \E r \in Reqs : Validate(r)
    \/ \E r \in Reqs : Save(r)
    \/ \E r \in Reqs : SaveRaises(r)
    \/ Tick

Spec == Init /\ [][Next]_vars

---------------------------------------------------------------------------
(* Validation of one request over a wide range of bodies *)

Absent == [kind |-> "absent", len |-> 0, at |-> FALSE, dom |-> 0]

Lens(f) ==
    {0, 1} \cup (IF HasMaxLength(f) THEN {MaxLength(f), MaxLength(f) + 1}
                 ELSE {InquiryLong})

WideValues(f) ==
    {Absent, List} \cup
    (IF IsEmailField(f)
     THEN {[kind |-> "str", len |-> n, at |-> a, dom |-> d] :
              n \in {0, 1}, a \in BOOLEAN,
              d \in {0, 1, MaxLength(f) - 2, MaxLength(f) - 1}}
     ELSE {Str(n) : n \in Lens(f)})

Present(m) == [f \in {g \in Fields : m[g].kind # "absent"} |-> m[f]]

WideBodies ==
    {[ok |-> TRUE, data |-> Present(m)] :
        m \in [name : WideValues("name"), email : WideValues("email"),
               phone : WideValues("phone"), subject : WideValues("subject"),
               inquiry : WideValues("inquiry"),
               contact_method : WideValues("contact_method")]}

RequestWide(r) ==
    /\ r = 1
    /\ reqs[r].pc = "idle"
    /\ \E body \in WideBodies : Arrive(r, body)

NextValidation ==
    \/ \E r \in Reqs : RequestWide(r)
    \/ \E r \in Reqs : Validate(r)
    \/ \E r \in Reqs : Save(r)
    \/ \E r \in Reqs : SaveRaises(r)

SpecValidation == Init /\ [][NextValidation]_vars

---------------------------------------------------------------------------
(* Properties *)

Range(seq) == {seq[i] : i \in 1..Len(seq)}

Terminal(q) == q.pc \notin {"idle", "line12", "line14"}
Validated(q) == q.pc \notin {"idle", "line12"}

\* the request whose handler took the step
Stepped(r) == reqs'[r] # reqs[r]

Ids == {store[i].id : i \in 1..Len(store)}

\* C1: a request whose field mapping fails validation ends Rejected: one
\* response, status 400, a message and a non-empty mapping from field names
\* to non-empty error lists; save is never called for it and the step
\* leaves the table (and its id sequence) as it was.
C1_InvalidIsRejectedAndStoresNothing ==
    [][\A r \in Reqs :
          (reqs[r].pc = "line12" /\ reqs[r].ok /\ ~IsValid(reqs[r].data)
             /\ Stepped(r))
          => LET q == reqs'[r] IN
             /\ q.pc = "done"
             /\ q.outcome = "Rejected"
             /\ Len(q.resp) = 1
             /\ q.resp[1].status = 400
             /\ DOMAIN q.resp[1].body = {"message", "errors"}
             /\ q.resp[1].body.message = "Invalid data"
             /\ DOMAIN q.resp[1].body.errors # {}
             /\ DOMAIN q.resp[1].body.errors \subseteq Fields
             /\ \A f \in DOMAIN q.resp[1].body.errors :
                   q.resp[1].body.errors[f] # <<>>
             /\ q.saveCalls = 0
             /\ store' = store
             /\ nextId' = nextId]_vars

C1_Witness ==
    \E r \in Reqs :
        /\ reqs[r].outcome = "Rejected"
        /\ reqs[r].ok /\ ~IsValid(reqs[r].data)
        /\ reqs[r].saveCalls = 0
        /\ store # <<>>

\* C2: a valid request whose store write raises ends Faulted: one response,
\* status 500, whose body is exactly the fixed generic message whatever the
\* cause and holds no text of the error; the cause is appended to the log
\* and the exception does not leave the handler.
C2_StoreFailureIsFaultedGenericAndLogged ==
    [][\A r \in Reqs :
          (reqs[r].pc = "line14" /\ Stepped(r) /\ Len(store') = Len(store))
          => LET q == reqs'[r] IN
             /\ q.pc = "done"
             /\ q.outcome = "Faulted"
             /\ ~q.escaped
             /\ Len(q.resp) = 1
             /\ q.resp[1].status = 500
             /\ DOMAIN q.resp[1].body = {"message"}
             /\ q.resp[1].body.message
                   = "An error occurred while processing your request"
             /\ \A k \in DOMAIN q.resp[1].body :
                   q.resp[1].body[k] \notin Exceptions
             /\ Len(log') = Len(log) + 1
             /\ log'[Len(log')].text \in StoreErrors
             /\ store' = store]_vars

C2_Witness ==
    \E r \in Reqs :
        /\ reqs[r].outcome = "Faulted"
        /\ reqs[r].saveCalls = 1
        /\ IsValid(reqs[r].data)
        /\ \E i \in 1..Len(log) : log[i].text = "OperationalError"
        /\ \E i \in 1..Len(log) : log[i].text = "IntegrityError"

\* C3: a valid request whose store write succeeds ends Accepted: status 201
\* with the success message, and the table gains exactly one row, after the
\* rows it had, holding the submitted values, an id the table allocated
\* (new, not the caller's) and created_at equal to the clock at the write.
C3_ValidStoredIsAcceptedWithOneNewRow ==
    [][\A r \in Reqs :
          (reqs[r].pc = "line14" /\ Stepped(r)
             /\ (store' # store \/ reqs'[r].outcome = "Accepted"))
          => LET q == reqs'[r]
                 row == store'[Len(store')]
             IN
             /\ q.pc = "done"
             /\ q.outcome = "Accepted"
             /\ q.resp = <<[status |-> 201,
                            body |-> [message |->
                               "Contact form submitted successfully"]]>>
             /\ Len(store') = Len(store) + 1
             /\ SubSeq(store', 1, Len(store)) = store
             /\ \A f \in Fields \cap DOMAIN reqs[r].data :
                   row.fields[f] = reqs[r].data[f]
             /\ row.id \notin Ids
             /\ row.id >= 1
             /\ row.id = q.instanceId
             /\ row.created_at = now]_vars

C3_Witness ==
    \E r \in Reqs :
        /\ reqs[r].outcome = "Accepted"
        /\ reqs[r].data = ValidFull.data
        /\ \E i \in 1..Len(store) :
              /\ store[i].id = reqs[r].instanceId
              /\ store[i].created_at = MaxTime
              /\ store[i].fields = ValidFull.data

\* C4: whatever the interleaving, no two rows of the table carry the same
\* id, and two Accepted requests were given two distinct ids.
C4_IdsAreDistinct ==
    /\ \A i, j \in 1..Len(store) : i # j => store[i].id # store[j].id
    /\ \A r1, r2 \in Reqs :
          (r1 # r2 /\ reqs[r1].outcome = "Accepted"
             /\ reqs[r2].outcome = "Accepted")
          => reqs[r1].instanceId # reqs[r2].instanceId

C4_Witness ==
    \E r1, r2 \in Reqs :
        /\ r1 # r2
        /\ reqs[r1].outcome = "Accepted"
        /\ reqs[r2].outcome = "Accepted"
        /\ r2 \in reqs[r1].peers
        /\ Len(store) >= 2

\* C5: the table holds as many rows as requests ended Accepted; every row is
\* the row of an Accepted request whose body parsed and validated, and a
\* request that ended Rejected or Faulted has no row.
C5_RowsAreExactlyTheAccepted ==
    /\ Len(store) = Cardinality({r \in Reqs : reqs[r].outcome = "Accepted"})
    /\ \A i \in 1..Len(store) :
          \E r \in Reqs :
             /\ reqs[r].outcome = "Accepted"
             /\ reqs[r].instanceId = store[i].id
             /\ reqs[r].ok /\ IsValid(reqs[r].data)
             /\ reqs[r].saveCalls = 1
    /\ \A r \in Reqs :
          reqs[r].outcome \in {"Rejected", "Faulted"}
          => reqs[r].instanceId \notin Ids

C5_Witness ==
    /\ \E r \in Reqs : reqs[r].outcome = "Accepted"
    /\ \E r \in Reqs : reqs[r].outcome = "Faulted" /\ reqs[r].saveCalls = 1
    /\ \A r \in Reqs : reqs[r].pc = "done"
    /\ Len(store) = 1
    /\ nextId = 3

\* C6: a stored row never changes: every step keeps each row in place with
\* the same id, created_at and fields; and an id or created_at sent by the
\* caller is not what the row gets.
C6_StoredRowsNeverChange ==
    [][/\ Len(store') >= Len(store)
       /\ \A i \in 1..Len(store) : store'[i] = store[i]
       /\ \A r \in Reqs :
             (reqs[r].pc = "line14" /\ reqs'[r].outcome = "Accepted")
             => LET row == store'[Len(store')] IN
                /\ "id" \in DOMAIN reqs[r].data
                      => row.id # reqs[r].data["id"].len
                /\ "created_at" \in DOMAIN reqs[r].data
                      => row.created_at # reqs[r].data["created_at"].len]_vars

C6_Witness ==
    /\ Len(store) >= 2
    /\ \E r \in Reqs :
          /\ reqs[r].outcome = "Accepted"
          /\ "id" \in DOMAIN reqs[r].data
          /\ reqs[r].instanceId = store[1].id
    /\ store[2].fields["email"] = store[1].fields["email"]
    /\ store[2].created_at > store[1].created_at

\* C7: a request is handled at most once: it has no outcome and no response
\* while in the handler, ends in exactly one of Accepted, Rejected, Faulted
\* with exactly one response of the matching status, is never touched again,
\* and save is called at most once for it (a failed write is not retried).
C7_HandledAtMostOnce ==
    [][\A r \in Reqs :
          LET q == reqs[r]
              q2 == reqs'[r]
          IN
          /\ Terminal(q) => q2 = q
          /\ q2.saveCalls <= 1
          /\ Len(q2.resp) <= 1
          /\ ~q2.escaped
          /\ ~Terminal(q2) => (q2.resp = <<>> /\ q2.outcome = "none")
          /\ Terminal(q2) =>
                /\ Len(q2.resp) = 1
                /\ \/ q2.outcome = "Accepted" /\ q2.resp[1].status = 201
                   \/ q2.outcome = "Rejected" /\ q2.resp[1].status = 400
                   \/ q2.outcome = "Faulted" /\ q2.resp[1].status = 500
          /\ (q.saveCalls = 1 /\ q.outcome = "Faulted") => q2.saveCalls = 1]_vars

C7_Witness ==
    /\ \A r \in Reqs : reqs[r].pc = "done"
    /\ \E r \in Reqs : reqs[r].outcome = "Faulted" /\ reqs[r].saveCalls = 1
    /\ \E r \in Reqs : reqs[r].outcome = "Faulted" /\ reqs[r].saveCalls = 0

BadRequired(data) ==
    {f \in {"name", "email", "subject", "inquiry"} :
        \/ f \notin DOMAIN data
        \/ data[f].kind # "str"
        \/ Length(data[f]) = 0}

\* C8: when name, email, subject or inquiry is absent, empty or not a
\* string, the request is Rejected, the error mapping has a key for each
\* such field, and nothing is stored.
C8_MissingRequiredIsRejected ==
    \A r \in Reqs :
        (Validated(reqs[r]) /\ reqs[r].ok /\ BadRequired(reqs[r].data) # {})
        => /\ reqs[r].pc = "done"
           /\ reqs[r].outcome = "Rejected"
           /\ Len(reqs[r].resp) = 1
           /\ BadRequired(reqs[r].data)
                 \subseteq DOMAIN reqs[r].resp[1].body.errors
           /\ reqs[r].saveCalls = 0
           /\ store = <<>>

C8_Witness ==
    \E r \in Reqs :
        /\ reqs[r].outcome = "Rejected"
        /\ "name" \notin DOMAIN reqs[r].data
        /\ "subject" \in DOMAIN reqs[r].data
        /\ reqs[r].data["subject"] = Str(0)
        /\ "inquiry" \in DOMAIN reqs[r].data
        /\ reqs[r].data["inquiry"] = List
        /\ DOMAIN reqs[r].resp[1].body.errors = {"name", "subject", "inquiry"}

ClaimedMax ==
    [name |-> 100, email |-> 254, phone |-> 20, subject |-> 100,
     contact_method |-> 20]

HasString(data, f) == f \in DOMAIN data /\ data[f].kind = "str"

LengthError(q, f) ==
    /\ q.outcome = "Rejected"
    /\ f \in DOMAIN q.resp[1].body.errors
    /\ "max_length" \in Range(q.resp[1].body.errors[f])

\* C9: a string longer than the field's maximum (name 100, email 254,
\* phone 20, subject 100, contact_method 20) is Rejected with a length error
\* under that field; inquiry never gets a length error; a string of exactly
\* the maximum length gets none either, and alone does not cause rejection.
C9_LengthLimits ==
    \A r \in Reqs :
        LET q == reqs[r] IN
        (Validated(q) /\ q.ok)
        => /\ \A f \in DOMAIN ClaimedMax :
                 /\ (HasString(q.data, f) /\ Length(q.data[f]) > ClaimedMax[f])
                       => LengthError(q, f)
                 /\ (HasString(q.data, f) /\ Length(q.data[f]) = ClaimedMax[f])
                       => ~LengthError(q, f)
                 /\ (HasString(q.data, f) /\ Length(q.data[f]) = ClaimedMax[f]
                       /\ ~IsEmailField(f) /\ q.outcome = "Rejected")
                       => f \notin DOMAIN q.resp[1].body.errors
           /\ ~LengthError(q, "inquiry")
           /\ (HasString(q.data, "inquiry") /\ Length(q.data["inquiry"]) >= 1
                 /\ q.outcome = "Rejected")
                 => "inquiry" \notin DOMAIN q.resp[1].body.errors

C9_Witness ==
    \E r \in Reqs :
        LET q == reqs[r] IN
        /\ q.outcome = "Rejected"
        /\ HasString(q.data, "name") /\ Length(q.data["name"]) = 101
        /\ HasString(q.data, "subject") /\ Length(q.data["subject"]) = 100
        /\ HasString(q.data, "email") /\ Length(q.data["email"]) = 254
        /\ HasString(q.data, "inquiry")
        /\ Length(q.data["inquiry"]) = InquiryLong
        /\ DOMAIN q.resp[1].body.errors = {"name"}

Omitted(data) == {"phone", "contact_method"} \ DOMAIN data

FilledIn(data) ==
    [f \in DOMAIN data \cup Omitted(data) |->
        IF f \in DOMAIN data THEN data[f] ELSE Str(1)]

\* C10: leaving out phone and/or contact_method is never a field error: a
\* body that would be valid with them filled in is not Rejected, and once
\* Accepted its row holds empty text in each omitted optional field.
C10_OptionalFieldsDefaultToEmpty ==
    \A r \in Reqs :
        LET q == reqs[r] IN
        (Validated(q) /\ q.ok /\ Omitted(q.data) # {})
        => /\ q.outcome = "Rejected"
                 => Omitted(q.data) \cap DOMAIN q.resp[1].body.errors = {}
           /\ IsValid(FilledIn(q.data)) => q.outcome # "Rejected"
           /\ q.outcome = "Accepted"
                 => \E i \in 1..Len(store) :
                       /\ store[i].id = q.instanceId
                       /\ \A f \in Omitted(q.data) :
                             store[i].fields[f] = Str(0)

C10_Witness ==
    \E r \in Reqs :
        /\ reqs[r].outcome = "Accepted"
        /\ Omitted(reqs[r].data) = {"phone", "contact_method"}
        /\ Len(store) = 1
        /\ store[1].fields["phone"] = Str(0)
        /\ store[1].fields["contact_method"] = Str(0)

====
